---- MODULE Spec2Model ----
(***************************************************************************)
(* Model of debug-server.go: Alexa.Run and the debug session debug(), the  *)
(* websocket bridge that reads skillRequest frames, unwraps the request    *)
(* envelope, calls the handler and writes back a skillResponse frame.      *)
(*                                                                         *)
(* Go semantics the model keeps:                                           *)
(*  - log.Fatal prints and calls os.Exit(1): deferred calls do NOT run;    *)
(*  - a nil pointer dereference panics: deferred calls run (last           *)
(*    registered first), then the process ends;                            *)
(*  - json.Unmarshal leaves a struct field at its zero value ("") when     *)
(*    the key is absent, and sets a pointer target to nil on JSON null;    *)
(*  - a map lookup of an absent key yields the zero value ("").            *)
(***************************************************************************)
EXTENDS Naturals, Sequences, FiniteSets

\* Number of frames the relay delivers in one run of the model.
MaxFrames == 2

VARIABLES
    debugServer,  \* flag -debugServer                       (line 25)
    region,       \* flag -region                            (line 28)
    pc,           \* position in Run/debug
    exitKind,     \* how the process ended: none | fatal | panic | lambda
    ctxDone,      \* ctx of line 68 is cancelled
    dialLog,      \* hosts handed to websocket.Dial, in order
    conn,         \* transport handle c: none | open | closed
    closeCalls,   \* c.Close calls made by debug, in order
    err,          \* function-scope err of debug: nil | dial | read | unmarshal | write
    req,          \* *skillRequest of the current iteration
    reqEnv,       \* *RequestEnvelope of the current iteration
    resp,         \* *skillResponse of the current iteration
    r,            \* handler result of the current iteration
    herr,         \* handler error of the current iteration (loop-scope err)
    readLog,      \* wire messages wsjson.Read delivered, in order
    calls,        \* handler invocations, in order
    written       \* frames wsjson.Write sent, in order

vars == <<debugServer, region, pc, exitKind, ctxDone, dialLog, conn, closeCalls,
          err, req, reqEnv, resp, r, herr, readLog, calls, written>>

-----------------------------------------------------------------------------
\* Values

NIL == [nil |-> TRUE]              \* a nil pointer
Missing == "<absent>"              \* a key that is not in the JSON object
WireNull == [null |-> TRUE]        \* the JSON text null

skillResponseTypeSuccess == "SkillResponseSuccessMessage"
skillResponseTypeFailure == "SkillResponseFailureMessage"

StatusNormalClosure == 1000

Regions == {"NA", "FE", "EU", "zz"}

regionEndpoints ==
    [code \in {"NA", "FE", "EU"} |->
        CASE code = "NA" -> "bob-dispatch-prod-na.amazon.com"
          [] code = "FE" -> "bob-dispatch-prod-fe.amazon.com"
          [] code = "EU" -> "bob-dispatch-prod-eu.amazon.com"]

\* Mutant of RegionEndpoint: an unknown code falls back to the default region.
RegionEndpoint_DefaultsToNA(code) ==
    IF code \in DOMAIN regionEndpoints THEN regionEndpoints[code] ELSE regionEndpoints["NA"]

\* regionEndpoints[region] of line 75: Go's map index, "" for an absent key.
RegionEndpoint(code) ==
    IF code \in DOMAIN regionEndpoints THEN regionEndpoints[code] ELSE ""

\* JSON objects the relay may send as a frame.
WireFrames ==
    [version        : {Missing, "1.0"},
     type           : {Missing, "req"},
     requestId      : {Missing, "abc"},
     requestPayload : {Missing, "{x}", "garbage"}]

\* The value json.Unmarshal stores in a string field.
Field(v) == IF v = Missing THEN "" ELSE v

\* wsjson.Read into &req: the skillRequest a wire message decodes to.
DecodeSkillRequest(w) ==
    IF w = WireNull
    THEN NIL
    ELSE [Version        |-> Field(w.version),
          Type           |-> Field(w.type),
          RequestID      |-> Field(w.requestId),
          RequestPayload |-> Field(w.requestPayload)]

\* json.Unmarshal([]byte(req.RequestPayload), &reqEnv) of line 112.
UnmarshalEnvelope(payload) ==
    IF payload = "{x}"
    THEN [ok |-> TRUE,  env |-> "env-x"]
    ELSE [ok |-> FALSE, env |-> "none"]    \* "" and "garbage" are not JSON

\* Values a handler may return as its *ResponseEnvelope.
Results == {"nil", "r1", "unserializable"}

\* json.Marshal(r) of line 128.
Marshal(res) ==
    CASE res = "nil"  -> [ok |-> TRUE,  bytes |-> "null"]
      [] res = "r1"   -> [ok |-> TRUE,  bytes |-> "{r1}"]
      [] OTHER        -> [ok |-> FALSE, bytes |-> ""]

-----------------------------------------------------------------------------
\* Pieces of the loop body

\* Mutant of NewResponse: the two echoed fields are taken from each other's source.
NewResponse_Swapped(rq) ==
    [Version           |-> rq.RequestID,
     Type              |-> skillResponseTypeSuccess,
     OriginalRequestID |-> rq.Version,
     ResponsePayload   |-> ""]

\* resp = &skillResponse{...} of lines 117-121; ResponsePayload is left zero.
NewResponse(rq) ==
    [Version           |-> rq.Version,
     Type              |-> skillResponseTypeSuccess,
     OriginalRequestID |-> rq.RequestID,
     ResponsePayload   |-> ""]

\* Mutant of OnHandlerResult: the result is marshalled before the error is looked at.
OnHandlerResult_KeepsPayload(rsp, res, e) ==
    IF e
    THEN [rsp EXCEPT !.Type = skillResponseTypeFailure,
                     !.ResponsePayload = Marshal(res).bytes]
    ELSE rsp

\* Lines 124-127: the handler's error marks the response a failure.
OnHandlerResult(rsp, res, e) ==
    IF e THEN [rsp EXCEPT !.Type = skillResponseTypeFailure] ELSE rsp

\* Mutant of OnMarshalResult: a marshal error is logged and the type left as it was.
OnMarshalResult_StaysSuccess(rsp, m) ==
    IF ~m.ok THEN rsp ELSE [rsp EXCEPT !.ResponsePayload = m.bytes]

\* Mutant of OnMarshalResult: the marshalled bytes are never stored.
OnMarshalResult_DropsPayload(rsp, m) ==
    IF ~m.ok THEN [rsp EXCEPT !.Type = skillResponseTypeFailure] ELSE rsp

\* Lines 128-135: the marshalled result, or a failure when it does not marshal.
OnMarshalResult(rsp, m) ==
    IF ~m.ok
    THEN [rsp EXCEPT !.Type = skillResponseTypeFailure]
    ELSE [rsp EXCEPT !.ResponsePayload = m.bytes]

-----------------------------------------------------------------------------
Init ==
    /\ debugServer \in BOOLEAN
    /\ region \in Regions
    /\ pc = "run"
    /\ exitKind = "none"
    /\ ctxDone = FALSE
    /\ dialLog = <<>>
    /\ conn = "none"
    /\ closeCalls = <<>>
    /\ err = "nil"
    /\ req = NIL
    /\ reqEnv = NIL
    /\ resp = NIL
    /\ r = "nil"
    /\ herr = FALSE
    /\ readLog = <<>>
    /\ calls = <<>>
    /\ written = <<>>

\* Run, lines 20-36: debug mode or the lambda runtime.
Run ==
    /\ pc = "run"
    /\ IF debugServer
       THEN pc' = "dial" /\ exitKind' = exitKind
       ELSE pc' = "exited" /\ exitKind' = "lambda"
    /\ UNCHANGED <<debugServer, region, ctxDone, dialLog, conn, closeCalls, err,
                   req, reqEnv, resp, r, herr, readLog, calls, written>>

\* log.Fatal: the process exits at once; no deferred call runs.
Fatal(kind) ==
    /\ err' = kind
    /\ pc' = "exited"
    /\ exitKind' = "fatal"
    /\ UNCHANGED <<ctxDone, conn, closeCalls>>

\* Mutant of Dial: a failed dial is tried again.
Dial_RetriesOnFailure ==
    /\ pc = "dial"
    /\ dialLog' = Append(dialLog, RegionEndpoint(region))
    /\ \E ok \in (IF RegionEndpoint(region) = "" THEN {FALSE} ELSE BOOLEAN) :
          IF ok
          THEN /\ conn' = "open"
               /\ pc' = "read"
               /\ UNCHANGED <<err, exitKind, ctxDone, closeCalls>>
          ELSE /\ err' = "dial"
               /\ UNCHANGED <<pc, conn, exitKind, ctxDone, closeCalls>>
    /\ UNCHANGED <<debugServer, region, req, reqEnv, resp, r, herr,
                   readLog, calls, written>>

\* debug, lines 68-97: build the URL, dial once, defer c.Close.
\* A URL with an empty host cannot be dialled.
Dial ==
    /\ pc = "dial"
    /\ dialLog' = Append(dialLog, RegionEndpoint(region))
    /\ \E ok \in (IF RegionEndpoint(region) = "" THEN {FALSE} ELSE BOOLEAN) :
          IF ok
          THEN /\ conn' = "open"
               /\ pc' = "read"
               /\ UNCHANGED <<err, exitKind, ctxDone, closeCalls>>
          ELSE Fatal("dial")
    /\ UNCHANGED <<debugServer, region, req, reqEnv, resp, r, herr,
                   readLog, calls, written>>

\* Mutant of ReadMessage: a failed read is logged and the loop tries again.
ReadMessage_RetriesOnError ==
    /\ pc = "read"
    /\ \/ /\ err' = "read"
          /\ UNCHANGED <<pc, exitKind, ctxDone, conn, closeCalls, req, readLog>>
       \/ /\ Len(readLog) < MaxFrames
          /\ \E w \in WireFrames \cup {WireNull} :
                /\ readLog' = Append(readLog, w)
                /\ req' = DecodeSkillRequest(w)
          /\ err' = "nil"
          /\ pc' = "unmarshal"
          /\ UNCHANGED <<exitKind, ctxDone, conn, closeCalls>>
    /\ UNCHANGED <<debugServer, region, dialLog, reqEnv, resp, r, herr, calls, written>>

\* Lines 100-109: wsjson.Read(ctx, c, &req).
ReadMessage ==
    /\ pc = "read"
    /\ \/ /\ Fatal("read")
          /\ UNCHANGED <<req, readLog>>
       \/ /\ Len(readLog) < MaxFrames
          /\ \E w \in WireFrames \cup {WireNull} :
                /\ readLog' = Append(readLog, w)
                /\ req' = DecodeSkillRequest(w)
          /\ err' = "nil"
          /\ pc' = "unmarshal"
          /\ UNCHANGED <<exitKind, ctxDone, conn, closeCalls>>
    /\ UNCHANGED <<debugServer, region, dialLog, reqEnv, resp, r, herr, calls, written>>

\* Mutant of UnmarshalPayload: a payload that does not unmarshal is answered
\* with a Failure frame and the session goes on.
UnmarshalPayload_InBandFailure ==
    /\ pc = "unmarshal"
    /\ IF req = NIL
       THEN /\ closeCalls' = Append(closeCalls,
                                    [code |-> StatusNormalClosure, reason |-> "bye"])
            /\ conn' = "closed"
            /\ ctxDone' = TRUE
            /\ pc' = "exited"
            /\ exitKind' = "panic"
            /\ UNCHANGED <<err, reqEnv, resp>>
       ELSE IF ~UnmarshalEnvelope(req.RequestPayload).ok
            THEN /\ resp' = [NewResponse(req) EXCEPT !.Type = skillResponseTypeFailure]
                 /\ pc' = "write"
                 /\ UNCHANGED <<err, exitKind, ctxDone, conn, closeCalls, reqEnv>>
            ELSE /\ reqEnv' = UnmarshalEnvelope(req.RequestPayload).env
                 /\ resp' = NewResponse(req)
                 /\ pc' = "handle"
                 /\ UNCHANGED <<err, exitKind, ctxDone, conn, closeCalls>>
    /\ UNCHANGED <<debugServer, region, dialLog, req, r, herr, readLog, calls, written>>

\* Mutant of UnmarshalPayload: a frame with an empty version, type or requestId
\* is rejected like one whose payload does not unmarshal.
UnmarshalPayload_ValidatesFields ==
    /\ pc = "unmarshal"
    /\ IF req = NIL
       THEN /\ closeCalls' = Append(closeCalls,
                                    [code |-> StatusNormalClosure, reason |-> "bye"])
            /\ conn' = "closed"
            /\ ctxDone' = TRUE
            /\ pc' = "exited"
            /\ exitKind' = "panic"
            /\ UNCHANGED <<err, reqEnv, resp>>
       ELSE IF \/ ~UnmarshalEnvelope(req.RequestPayload).ok
               \/ req.Version = "" \/ req.Type = "" \/ req.RequestID = ""
            THEN /\ Fatal("unmarshal")
                 /\ UNCHANGED <<reqEnv, resp>>
            ELSE /\ reqEnv' = UnmarshalEnvelope(req.RequestPayload).env
                 /\ resp' = NewResponse(req)
                 /\ pc' = "handle"
                 /\ UNCHANGED <<err, exitKind, ctxDone, conn, closeCalls>>
    /\ UNCHANGED <<debugServer, region, dialLog, req, r, herr, readLog, calls, written>>

\* Lines 111-121: unmarshal req.RequestPayload and build the response.
\* req.RequestPayload on a nil req panics: the deferred c.Close (line 94) and
\* cancel (line 69) run, and the process ends.
UnmarshalPayload ==
    /\ pc = "unmarshal"
    /\ IF req = NIL
       THEN /\ closeCalls' = Append(closeCalls,
                                    [code |-> StatusNormalClosure, reason |-> "bye"])
            /\ conn' = "closed"
            /\ ctxDone' = TRUE
            /\ pc' = "exited"
            /\ exitKind' = "panic"
            /\ UNCHANGED <<err, reqEnv, resp>>
       ELSE IF ~UnmarshalEnvelope(req.RequestPayload).ok
            THEN /\ Fatal("unmarshal")
                 /\ UNCHANGED <<reqEnv, resp>>
            ELSE /\ reqEnv' = UnmarshalEnvelope(req.RequestPayload).env
                 /\ resp' = NewResponse(req)
                 /\ pc' = "handle"
                 /\ UNCHANGED <<err, exitKind, ctxDone, conn, closeCalls>>
    /\ UNCHANGED <<debugServer, region, dialLog, req, r, herr, readLog, calls, written>>

\* Mutant of InvokeHandler: a handler error is fatal.
InvokeHandler_FatalOnError ==
    /\ pc = "handle"
    /\ \E res \in Results, e \in BOOLEAN :
          /\ r' = res
          /\ herr' = e
          /\ calls' = Append(calls, [reqEnv |-> reqEnv, r |-> res, err |-> e])
          /\ resp' = OnHandlerResult(resp, res, e)
          /\ IF e
             THEN pc' = "exited" /\ exitKind' = "fatal"
             ELSE pc' = "marshal" /\ exitKind' = exitKind
    /\ UNCHANGED <<debugServer, region, ctxDone, dialLog, conn, closeCalls,
                   err, req, reqEnv, readLog, written>>

\* Mutant of InvokeHandler: a handler error skips to the next iteration.
InvokeHandler_ContinueOnError ==
    /\ pc = "handle"
    /\ \E res \in Results, e \in BOOLEAN :
          /\ calls' = Append(calls, [reqEnv |-> reqEnv, r |-> res, err |-> e])
          /\ IF e
             THEN /\ pc' = "read"
                  /\ r' = "nil" /\ herr' = FALSE /\ resp' = NIL
                  /\ req' = NIL /\ reqEnv' = NIL
             ELSE /\ pc' = "marshal"
                  /\ r' = res /\ herr' = e /\ resp' = OnHandlerResult(resp, res, e)
                  /\ UNCHANGED <<req, reqEnv>>
    /\ UNCHANGED <<debugServer, region, exitKind, ctxDone, dialLog, conn, closeCalls,
                   err, readLog, written>>

\* Mutant of InvokeHandler: a handler that fails is called a second time.
InvokeHandler_RetriesOnError ==
    /\ pc = "handle"
    /\ \E res \in Results, e \in BOOLEAN :
          /\ r' = res
          /\ herr' = e
          /\ calls' = IF e
                      THEN calls \o << [reqEnv |-> reqEnv, r |-> res, err |-> TRUE],
                                       [reqEnv |-> reqEnv, r |-> res, err |-> e] >>
                      ELSE Append(calls, [reqEnv |-> reqEnv, r |-> res, err |-> e])
          /\ resp' = OnHandlerResult(resp, res, e)
          /\ pc' = IF e THEN "write" ELSE "marshal"
    /\ UNCHANGED <<debugServer, region, exitKind, ctxDone, dialLog, conn, closeCalls,
                   err, req, reqEnv, readLog, written>>

\* Lines 123-127: r, err := handler(ctx, reqEnv).
InvokeHandler ==
    /\ pc = "handle"
    /\ \E res \in Results, e \in BOOLEAN :
          /\ r' = res
          /\ herr' = e
          /\ calls' = Append(calls, [reqEnv |-> reqEnv, r |-> res, err |-> e])
          /\ resp' = OnHandlerResult(resp, res, e)
          /\ pc' = IF e THEN "write" ELSE "marshal"
    /\ UNCHANGED <<debugServer, region, exitKind, ctxDone, dialLog, conn, closeCalls,
                   err, req, reqEnv, readLog, written>>

\* Lines 128-135: rb, err := json.Marshal(r).
MarshalResponse ==
    /\ pc = "marshal"
    /\ resp' = OnMarshalResult(resp, Marshal(r))
    /\ pc' = "write"
    /\ UNCHANGED <<debugServer, region, exitKind, ctxDone, dialLog, conn, closeCalls,
                   err, req, reqEnv, r, herr, readLog, calls, written>>

\* Mutant of WriteResponse: the frame is sent twice.
WriteResponse_WritesTwice ==
    /\ pc = "write"
    /\ \/ /\ Fatal("write")
          /\ UNCHANGED <<req, reqEnv, resp, r, herr, written>>
       \/ /\ written' = written \o <<resp, resp>>
          /\ err' = "nil"
          /\ req' = NIL
          /\ reqEnv' = NIL
          /\ resp' = NIL
          /\ r' = "nil"
          /\ herr' = FALSE
          /\ pc' = "read"
          /\ UNCHANGED <<exitKind, ctxDone, conn, closeCalls>>
    /\ UNCHANGED <<debugServer, region, dialLog, readLog, calls>>

\* Lines 137-142: wsjson.Write(ctx, c, resp), then the next iteration, whose
\* req and resp are fresh nil pointers (lines 100-103).
WriteResponse ==
    /\ pc = "write"
    /\ \/ /\ Fatal("write")
          /\ UNCHANGED <<req, reqEnv, resp, r, herr, written>>
       \/ /\ written' = Append(written, resp)
          /\ err' = "nil"
          /\ req' = NIL
          /\ reqEnv' = NIL
          /\ resp' = NIL
          /\ r' = "nil"
          /\ herr' = FALSE
          /\ pc' = "read"
          /\ UNCHANGED <<exitKind, ctxDone, conn, closeCalls>>
    /\ UNCHANGED <<debugServer, region, dialLog, readLog, calls>>

Next ==
    \/ Run
    \/ Dial
    \/ ReadMessage
    \/ UnmarshalPayload
    \/ InvokeHandler
    \/ MarshalResponse
    \/ WriteResponse

Spec == Init /\ [][Next]_vars

\* The debug session alone. Its goroutine keeps running: once a frame is read, each later step
\* of the loop body (unmarshal, handler call, marshal, write) is eventually
\* taken. A read may wait for the relay for ever, so it has no fairness.
\* It is started as the debug server with the default region (lines 25, 28).
FairInit ==
    /\ Init
    /\ debugServer = TRUE
    /\ region = "NA"

FairSpec ==
    /\ FairInit
    /\ [][Next]_vars
    /\ WF_vars(UnmarshalPayload)
    /\ WF_vars(InvokeHandler)
    /\ WF_vars(MarshalResponse)
    /\ WF_vars(WriteResponse)

-----------------------------------------------------------------------------
\* Properties

\* The inbound message that produced the i-th written frame, and its handler call.
Answered == 1..Len(written)

\* C1: every written response frame carries the requestId (as originalRequestId)
\* and the version of the inbound frame read in the same iteration, whatever the
\* handler outcome.
C1_ResponseEchoesRequest ==
    \A i \in Answered :
        /\ i <= Len(readLog)
        /\ readLog[i] # WireNull
        /\ written[i].OriginalRequestID = Field(readLog[i].requestId)
        /\ written[i].Version = Field(readLog[i].version)

C1_Witness ==
    /\ Len(written) = 2
    /\ written[1].OriginalRequestID # written[2].OriginalRequestID
    /\ written[1].Version # written[2].Version
    /\ calls[1].err
    /\ ~calls[2].err /\ ~Marshal(calls[2].r).ok

\* C2: a written frame has type Failure exactly when the handler returned an
\* error or its result did not marshal; otherwise its type is Success.
C2_FailureIffHandlerOrMarshalError ==
    \A i \in Answered :
        /\ i <= Len(calls)
        /\ written[i].Type \in {skillResponseTypeSuccess, skillResponseTypeFailure}
        /\ (written[i].Type = skillResponseTypeFailure)
              <=> (calls[i].err \/ ~Marshal(calls[i].r).ok)

C2_Witness ==
    /\ Len(written) = 2
    /\ written[1].Type = skillResponseTypeFailure
    /\ ~calls[1].err
    /\ written[2].Type = skillResponseTypeSuccess

\* C3: every written frame of type Failure has an empty responsePayload.
C3_FailureHasEmptyPayload ==
    \A i \in Answered :
        written[i].Type = skillResponseTypeFailure => written[i].ResponsePayload = ""

C3_Witness ==
    /\ Len(written) = 2
    /\ written[1].Type = skillResponseTypeSuccess
    /\ written[1].ResponsePayload = "null"
    /\ written[2].Type = skillResponseTypeFailure
    /\ calls[2].err /\ calls[2].r = "r1"

\* C4: when the handler succeeds and its result marshals, the written frame has
\* type Success and its responsePayload is the marshalled form of the value the
\* handler returned for that frame.
C4_SuccessCarriesMarshalledResult ==
    \A i \in Answered :
        /\ i <= Len(calls)
        /\ (~calls[i].err /\ Marshal(calls[i].r).ok)
              => /\ written[i].Type = skillResponseTypeSuccess
                 /\ written[i].ResponsePayload = Marshal(calls[i].r).bytes

C4_Witness ==
    /\ Len(written) = 2
    /\ ~calls[1].err /\ calls[1].r = "r1"
    /\ ~calls[2].err /\ calls[2].r = "nil"
    /\ written[1].ResponsePayload # written[2].ResponsePayload

\* C5: a handler error or a marshal failure never ends the session: the step
\* leads to the write of a Failure frame, and a write that succeeds sends that
\* frame and leads to the next read.
C5_HandlerAndMarshalErrorsAreRecovered ==
    [][ /\ (pc = "handle" /\ calls' # calls /\ calls'[Len(calls')].err)
             => (pc' = "write" /\ exitKind' = "none"
                 /\ resp'.Type = skillResponseTypeFailure)
        /\ (pc = "marshal" /\ ~Marshal(r).ok)
             => (pc' = "write" /\ exitKind' = "none"
                 /\ resp'.Type = skillResponseTypeFailure)
        /\ (pc = "write" /\ err' = "nil")
             => (written' = Append(written, resp) /\ pc' = "read"
                 /\ exitKind' = "none")
      ]_vars

C5_Witness ==
    /\ pc = "read" /\ exitKind = "none"
    /\ Len(written) = 2
    /\ calls[1].err /\ written[1].Type = skillResponseTypeFailure
    /\ ~calls[2].err /\ ~Marshal(calls[2].r).ok
    /\ written[2].Type = skillResponseTypeFailure

\* C6: once the connect has succeeded, every exit of the session has closed
\* the transport handle exactly once.
C6_HandleClosedExactlyOnceOnExit ==
    (pc = "exited" /\ conn # "none") => Len(closeCalls) = 1

\* C7: at most one frame is in flight, and whenever the session is about to
\* read, every frame read so far has had its response written.
C7_StrictlySequential ==
    /\ Len(written) <= Len(readLog)
    /\ Len(readLog) <= Len(written) + 1
    /\ pc = "read" => Len(readLog) = Len(written)
    /\ pc \in {"unmarshal", "handle", "marshal", "write"}
          => Len(readLog) = Len(written) + 1

C7_Witness ==
    /\ pc = "write"
    /\ Len(readLog) = 2
    /\ Len(written) = 1

\* C8: the originalRequestIds written are, in order, a prefix of the requestIds
\* read, and at most one frame read is still unanswered.
C8_ResponsesInRequestOrder ==
    /\ Len(written) <= Len(readLog)
    /\ Len(readLog) - Len(written) <= 1
    /\ \A i \in Answered :
          /\ readLog[i] # WireNull
          /\ written[i].OriginalRequestID = Field(readLog[i].requestId)

C8_Witness ==
    /\ Len(written) = 2
    /\ readLog[1].requestId # readLog[2].requestId
    /\ written[1].OriginalRequestID = "abc"
    /\ written[2].OriginalRequestID = ""

\* C9: a failed read or write is terminal: the session is in its fatal exit at
\* once, and from then on nothing is read, handled, written or dialled.
C9_ReadWriteFailureIsTerminal ==
    /\ [](err \in {"read", "write"} => (pc = "exited" /\ exitKind = "fatal"))
    /\ [][(err \in {"read", "write"})
             => (<<pc, exitKind, err, readLog, calls, written, dialLog>>'
                    = <<pc, exitKind, err, readLog, calls, written, dialLog>>)]_vars

C9_Witness ==
    /\ err = "write"
    /\ pc = "exited"
    /\ Len(written) = 1
    /\ Len(readLog) = 2
    /\ Len(calls) = 2

\* C10: a session whose context has been cancelled ends as a normal
\* termination, with one close handshake of normal-closure status and a reason.
C10_CancelledSessionEndsNormally ==
    (pc = "exited" /\ ctxDone)
        => /\ Len(closeCalls) = 1
           /\ closeCalls[1].code = StatusNormalClosure
           /\ closeCalls[1].reason # ""
           /\ exitKind = "normal"

\* The i-th message read is a JSON object whose requestPayload unmarshals.
Decodable(i) ==
    /\ readLog[i] # WireNull
    /\ UnmarshalEnvelope(Field(readLog[i].requestPayload)).ok

\* C11: a frame that was read but whose requestPayload does not unmarshal fails
\* the whole session: it is the last frame read, the handler is not called for
\* it, no response is written for it, and past line 112 the session is in its
\* fatal exit.
C11_InnerDecodeFailureIsFatal ==
    \A i \in 1..Len(readLog) :
        (readLog[i] # WireNull /\ ~Decodable(i))
            => /\ i = Len(readLog)
               /\ Len(calls) < i
               /\ Len(written) < i
               /\ pc \in {"unmarshal", "exited"}
               /\ pc = "exited" => (exitKind = "fatal" /\ err = "unmarshal")

C11_Witness ==
    /\ pc = "exited" /\ err = "unmarshal"
    /\ Len(readLog) = 2
    /\ readLog[2] # WireNull /\ readLog[2].requestPayload = "garbage"
    /\ Len(calls) = 1 /\ Len(written) = 1

\* C12 as stated: the only fatal exits of the session are transport failures
\* (connect, read with the outer-frame decode, write); a requestPayload that
\* does not unmarshal is answered in band and is never fatal.
C12_InnerDecodeFailureIsRecovered ==
    exitKind = "fatal" => err \in {"dial", "read", "write"}

\* C12 as amended: handler and marshal failures are answered in band with a
\* Failure frame, and the fatal exits are exactly the connect, read, write and
\* requestPayload-unmarshal failures.
C12_FatalExitsAndInBandFailures ==
    /\ exitKind = "fatal" <=> err \in {"dial", "read", "unmarshal", "write"}
    /\ exitKind = "fatal" => pc = "exited"
    /\ err = "unmarshal" => (Len(readLog) > 0 /\ ~Decodable(Len(readLog)))
    /\ \A i \in Answered :
          (calls[i].err \/ ~Marshal(calls[i].r).ok)
              => (Decodable(i) /\ written[i].Type = skillResponseTypeFailure)

C12_Witness ==
    /\ exitKind = "fatal" /\ err = "unmarshal"
    /\ Len(written) = 1
    /\ calls[1].err
    /\ written[1].Type = skillResponseTypeFailure

\* C13: the connection is dialled at most once, and a failed dial ends the
\* process at once: nothing is read, handled or written, and no handle is open.
C13_ConnectFailureIsFatalNoRetry ==
    /\ Len(dialLog) <= 1
    /\ err = "dial"
          => /\ pc = "exited" /\ exitKind = "fatal"
             /\ conn = "none"
             /\ readLog = <<>> /\ calls = <<>> /\ written = <<>>
    /\ (Len(readLog) > 0 \/ pc \in {"read", "unmarshal", "handle", "marshal", "write"})
          => (Len(dialLog) = 1 /\ err # "dial")

C13_Witness ==
    /\ err = "dial"
    /\ pc = "exited"
    /\ dialLog = <<"bob-dispatch-prod-fe.amazon.com">>

\* A member of the JSON object w is absent.
SomeFieldMissing(w) ==
    \/ w.version = Missing \/ w.type = Missing
    \/ w.requestId = Missing \/ w.requestPayload = Missing

\* C14 as stated: a frame read with version, type, requestId or requestPayload
\* absent is not processed: no handler call and no response for it.
C14_MissingFieldStopsFrame ==
    \A i \in 1..Len(readLog) :
        (readLog[i] # WireNull /\ SomeFieldMissing(readLog[i]))
            => (Len(calls) < i /\ Len(written) < i)

\* C14 as amended: an absent version, type or requestId decodes to the empty
\* string and the frame is processed like any other (its unmarshal step is not
\* fatal, the handler is called, and the response echoes the empty values);
\* only a frame whose requestPayload is absent is never handled or answered.
C14_OnlyMissingPayloadStopsFrame ==
    \A i \in 1..Len(readLog) :
        readLog[i] # WireNull =>
            /\ readLog[i].requestPayload = Missing
                  => (Len(calls) < i /\ Len(written) < i /\ i = Len(readLog))
            /\ Decodable(i)
                  => /\ i = Len(readLog) => err # "unmarshal"
                     /\ (i = Len(readLog) /\ pc = "exited") => err \in {"read", "write"}
                     /\ i < Len(readLog) => (Len(calls) >= i /\ Len(written) >= i)
                     /\ i <= Len(written)
                           => /\ written[i].Version = Field(readLog[i].version)
                              /\ written[i].OriginalRequestID = Field(readLog[i].requestId)

C14_Witness ==
    /\ Len(written) = 1 /\ Len(calls) = 1
    /\ readLog[1].version = Missing
    /\ readLog[1].type = Missing
    /\ readLog[1].requestId = Missing
    /\ written[1].Version = "" /\ written[1].OriginalRequestID = ""
    /\ written[1].Type = skillResponseTypeSuccess

\* C15: the host resolved for NA, FE and EU is the fixed host of that region,
\* three different non-empty names, and for any other code it is "" (the lookup
\* does not fail: the dial is still reached with it).
C15_RegionResolver ==
    \A i \in 1..Len(dialLog) :
        /\ region = "NA" => dialLog[i] = "bob-dispatch-prod-na.amazon.com"
        /\ region = "FE" => dialLog[i] = "bob-dispatch-prod-fe.amazon.com"
        /\ region = "EU" => dialLog[i] = "bob-dispatch-prod-eu.amazon.com"
        /\ region \notin {"NA", "FE", "EU"} => dialLog[i] = ""
        /\ dialLog[i] = "bob-dispatch-prod-na.amazon.com" => region = "NA"
        /\ dialLog[i] = "bob-dispatch-prod-fe.amazon.com" => region = "FE"
        /\ dialLog[i] = "bob-dispatch-prod-eu.amazon.com" => region = "EU"

C15_Witness ==
    /\ region = "zz"
    /\ dialLog = <<"">>

\* C16: the handler is called exactly once for each frame read whose
\* requestPayload unmarshals, after the read and before the write of that
\* frame, with the envelope unmarshalled from it, and for no other frame.
C16_HandlerOncePerDecodedFrame ==
    /\ Len(written) <= Len(calls)
    /\ Len(calls) <= Len(written) + 1
    /\ Len(calls) <= Len(readLog)
    /\ \A i \in 1..Len(calls) :
          /\ Decodable(i)
          /\ calls[i].reqEnv = UnmarshalEnvelope(Field(readLog[i].requestPayload)).env
    /\ pc \in {"unmarshal", "handle"} => Len(calls) = Len(readLog) - 1
    /\ pc \in {"marshal", "write"}
          => (Len(calls) = Len(readLog) /\ Len(written) = Len(calls) - 1)
    /\ pc = "read" => (Len(calls) = Len(readLog) /\ Len(written) = Len(calls))
    /\ \A i \in 1..Len(readLog) : (~Decodable(i)) => Len(calls) < i

C16_Witness ==
    /\ pc = "write"
    /\ Len(readLog) = 2 /\ Decodable(1) /\ Decodable(2)
    /\ Len(calls) = 2
    /\ Len(written) = 1

\* C17: websocket.Dial is never called with an empty relay host.
C17_NoDialWithEmptyHost ==
    \A i \in 1..Len(dialLog) : dialLog[i] # ""

\* C18: once a frame has been read, the session ends only by one of its three
\* fatal exits: a failed read, a requestPayload that does not unmarshal, or a
\* failed write.
C18_ReadFrameEndsOnlyByFatalPaths ==
    (pc = "exited" /\ Len(readLog) > 0)
        => (exitKind = "fatal" /\ err \in {"read", "unmarshal", "write"})

\* The frame read last is in flight and its requestPayload unmarshals.
DecodedFrameInFlight ==
    /\ pc = "unmarshal"
    /\ Len(readLog) > 0
    /\ Decodable(Len(readLog))

\* The write of the response to the frame read last has been attempted: it
\* succeeded (every frame read is answered) or it failed the session.
WriteAttempted ==
    \/ Len(written) = Len(readLog)
    \/ (pc = "exited" /\ err = "write")

\* C19: every frame read whose requestPayload unmarshals is eventually followed
\* by a write attempt of its response, and never by more than one response.
C19_DecodedFrameIsEventuallyAnswered ==
    /\ DecodedFrameInFlight ~> WriteAttempted
    /\ [](Len(written) <= Len(readLog))

C19_Witness ==
    /\ pc = "exited" /\ err = "write"
    /\ Len(readLog) = 2 /\ Decodable(1) /\ Decodable(2)
    /\ calls[2].err
    /\ Len(written) = 1

====
